---- MODULE Spec2Model ----
(***************************************************************************)
(* Pattern Studio: the PatternEngine (mask sampler, layout generator,      *)
(* renderer, SVG exporter) and the handlers of the App component that      *)
(* drive it.                                                               *)
(*                                                                         *)
(* Numbers.  Lengths and coordinates are kept in eighths of a pixel (U(n)  *)
(* is n px), so that the grid's half steps, size / aspectRatio and w / 2   *)
(* stay integers.  Angles are kept in eighths of a turn (pi/4).  A call of *)
(* Math.random() is a choice k of a small set, standing for k / 8 (angle,  *)
(* phase), k / 2 (size, speed multiplier) or a sample position.            *)
(***************************************************************************)
EXTENDS Integers, Sequences, FiniteSets, TLC

VARIABLES
    ctx,          \* engine: a 2D context is bound (this.ctx # null)
    width,        \* engine: this.width  (px)
    height,       \* engine: this.height (px)
    assets,       \* engine: keys of this.assets (kept equal to App's assets)
    maskData,     \* engine: this.maskData, NoMask or [w, h, px]
    maskCanvas,   \* engine: this.maskCanvas is set
    config,       \* App: config state
    layoutItems,  \* App: layoutItems state
    timer,        \* App: pending setTimeout(generatePattern, 100) calls, each its closure's config
    usedIds,      \* asset ids handed out so far (ids are fresh random strings)
    pc,           \* position inside generateLayout: idle, grid, random, done
    genCfg,       \* generateLayout: its config argument
    items,        \* generateLayout: items
    count,        \* generateLayout: count
    attempts,     \* generateLayout: attempts
    row,          \* generateLayout: r
    col,          \* generateLayout: c
    genAssets,    \* history: the registry when generateLayout was last called
    genOut,       \* history: what generateLayout last returned
    drawn,        \* the frame the last render call drew, NoFrame once another handler ran
    svg,          \* the document the last exportSVG call returned, NoSvg once another handler ran
    threw,        \* the last handler ended by an uncaught exception
    maskFailed,   \* history: the last setMask(img) call could not rasterize
    earlier,      \* history: a frame some render call drew since the last other handler
    loop,         \* App: the requestAnimationFrame callbacks pending, each with the
                  \* layoutItems and config of its closure, and animationRef.current
    uploads       \* App: the handleAssetUpload calls made, each with its files, the
                  \* callbacks still to run and the locals of its closure

vars == <<ctx, width, height, assets, maskData, maskCanvas, config, layoutItems,
          timer, usedIds, pc, genCfg, items, count, attempts, row, col,
          genAssets, genOut, drawn, svg, threw, maskFailed, earlier, loop, uploads>>

engineVars == <<ctx, width, height, assets, maskData, maskCanvas>>
frameVars == <<pc, genCfg, items, count, attempts, row, col, genAssets>>

----------------------------------------------------------------------------
(* Bounds of the model *)

MaxDim == 3        \* canvas sides range over 0..MaxDim px
MaxDensity == 2    \* config.density ranges over 0..MaxDensity
MaxTime == 2       \* render timestamps range over 0..MaxTime

(* Program constants *)

AttemptFactor == 50   \* maxAttempts = config.density * 50
AlphaMin == 50        \* alpha > 50
BrightMax == 200      \* brightness < 200

----------------------------------------------------------------------------
(* Units and arithmetic *)

U(n) == 8 * n

Max(a, b) == IF a >= b THEN a ELSE b

Min(a, b) == IF a <= b THEN a ELSE b

\* Math.ceil(a / b) for a >= 0, b > 0
CeilDiv(a, b) == (a + b - 1) \div b

\* null and "not there" values, of the shape of the values they stand in for
NoMask == [w |-> 0, h |-> 0, px |-> <<>>, built |-> FALSE]
NoColor == "null"
NoCanvas == [asset |-> "null", color |-> NoColor, w |-> 0, h |-> 0]
NoFrame == [called |-> FALSE, time |-> 0, anim |-> FALSE, cleared |-> FALSE,
            maskBg |-> FALSE, ops |-> <<>>]
NoSvg == [called |-> FALSE, width |-> 0, height |-> 0, elems |-> <<>>]

----------------------------------------------------------------------------
(* ProcessedAsset: the registry is keyed by id; an asset's other fields are *)
(* fixed once it is created.                                                *)

\* aspectRatio = arNum / arDen
AssetInfo(id) ==
    CASE id = "a" -> [type |-> "svg", arNum |-> 1, arDen |-> 1, vectorContent |-> TRUE]
      [] id = "b" -> [type |-> "raster", arNum |-> 2, arDen |-> 1, vectorContent |-> FALSE]
      [] OTHER -> [type |-> "svg", arNum |-> 1, arDen |-> 2, vectorContent |-> TRUE]

\* size / asset.aspectRatio
DivAspect(size, id) == (size * AssetInfo(id).arDen) \div AssetInfo(id).arNum

----------------------------------------------------------------------------
(* PatternConfig *)

DEFAULT_CONFIG ==
    [mode |-> "random", density |-> 2, gridGap |-> 1, minSize |-> 1, maxSize |-> 3,
     rotationRandomness |-> TRUE, colors |-> <<"#000000">>, useRandomColor |-> TRUE,
     preventOverlap |-> TRUE, useMask |-> FALSE, showMaskBg |-> TRUE,
     enableAnim |-> FALSE, animAmplitude |-> 1, animSpeed |-> 1]

----------------------------------------------------------------------------
(* Mask sampler *)

Transparent == <<0, 0, 0, 0>>

\* The rectangle setMask draws the image into, in units of 1 / (20 * ih * iw) px:
\* 0.9 of the canvas side is 18 / 20 of it.
MaskScale(img) == 20 * img.w * img.h

\* A "cover" fit: the comparison of the ratios the other way round
DrawRectCover(img, W, H) ==
    LET S == MaskScale(img)
        wide == W * img.h < H * img.w
        dh == IF wide THEN 18 * H * img.w * img.h ELSE 18 * W * img.h * img.h
        dw == IF wide THEN 18 * H * img.w * img.w ELSE 18 * W * img.w * img.h
    IN  [x |-> (S * W - dw) \div 2, y |-> (S * H - dh) \div 2, w |-> dw, h |-> dh]

DrawRect(img, W, H) ==
    LET S == MaskScale(img)
        \* screenRatio > imgRatio
        wide == W * img.h > H * img.w
        dh == IF wide THEN 18 * H * img.w * img.h ELSE 18 * W * img.h * img.h
        dw == IF wide THEN 18 * H * img.w * img.w ELSE 18 * W * img.w * img.h
    IN  [x |-> (S * W - dw) \div 2, y |-> (S * H - dh) \div 2, w |-> dw, h |-> dh]

\* The length the intervals [lo1, hi1] and [lo2, hi2] share
Shared(lo1, hi1, lo2, hi2) == Max(0, Min(hi1, hi2) - Max(lo1, lo2))

\* ctx.drawImage(img, ...) then getImageData: a pixel takes the image's colour, and
\* the image's alpha times the part of the pixel the rectangle covers; a pixel the
\* rectangle does not touch stays transparent.
Rasterize(img, W, H) ==
    LET S == MaskScale(img)
        rect == DrawRect(img, W, H)
        cover(px, py) ==
            Shared(px * S, (px + 1) * S, rect.x, rect.x + rect.w)
                * Shared(py * S, (py + 1) * S, rect.y, rect.y + rect.h)
        pixel(px, py) ==
            IF cover(px, py) = 0 THEN Transparent
            ELSE <<img.pix[1], img.pix[2], img.pix[3],
                   (img.pix[4] * cover(px, py)) \div (S * S)>>
    IN  [i \in 0..(W * H - 1) |-> pixel(i % W, i \div W)]

\* alpha > 50 && brightness < 200, brightness = (r + g + b) / 3
PixelActive(p) == p[4] > AlphaMin /\ p[1] + p[2] + p[3] < 3 * BrightMax

\* checkMask without its test of the canvas bounds
CheckMaskNoBounds(m, W, H, x, y) ==
    IF m = NoMask THEN TRUE
    ELSE LET idx == (y \div U(1)) * W + (x \div U(1))
         IN  IF idx \notin DOMAIN m.px THEN FALSE ELSE PixelActive(m.px[idx])

\* checkMask(x, y) on mask buffer m with this.width = W, this.height = H.
\* A read past the end of the buffer is undefined, and the comparisons fail.
CheckMask(m, W, H, x, y) ==
    IF m = NoMask THEN TRUE
    ELSE LET px == x \div U(1)
             py == y \div U(1)
             idx == py * W + px
         IN  IF px < 0 \/ px >= W \/ py < 0 \/ py >= H THEN FALSE
             ELSE IF idx \notin DOMAIN m.px THEN FALSE
             ELSE PixelActive(m.px[idx])

\* getImageData(0, 0, width, height) throws IndexSizeError for a zero-sized rectangle
GetImageDataThrows(W, H) == W = 0 \/ H = 0

\* setMask(img) with a non-null image and a 2D context: the new maskData
BuildMask(img, W, H) == [w |-> W, h |-> H, px |-> Rasterize(img, W, H), built |-> TRUE]

----------------------------------------------------------------------------
(* Layout generator *)

GridStepSize(cfg) == cfg.maxSize + cfg.gridGap

\* cols without the extra column
GridColsNoExtra(W, step) == CeilDiv(W, step)

GridCols(W, step) == CeilDiv(W, step) + 1

GridRows(H, step) == CeilDiv(H, step) + 1

\* startX = (width - cols * step) / 2 + step / 2, and startX + c * step
GridX(W, step, c) == 4 * (W - GridCols(W, step) * step) + 4 * step + U(c * step)

GridY(H, step, r) == 4 * (H - GridRows(H, step) * step) + 4 * step + U(r * step)

\* A free angle in both modes
ItemAngleFree(cfg, k) == IF cfg.rotationRandomness THEN k ELSE 0

\* The angle addItem gives an item; k stands for Math.random() = k / 8.
ItemAngle(cfg, k) ==
    IF cfg.rotationRandomness
    THEN IF cfg.mode = "grid" THEN 2 * ((4 * k) \div 8) ELSE k
    ELSE 0

\* A colour whenever the palette has one, useRandomColor or not
ItemColorAlways(cfg, k) == IF Len(cfg.colors) > 0 THEN cfg.colors[k] ELSE NoColor

\* The colour addItem gives an item; k stands for the index drawn.
ItemColor(cfg, k) ==
    IF cfg.useRandomColor /\ Len(cfg.colors) > 0 THEN cfg.colors[k] ELSE NoColor

\* createTintedCanvas(asset, color, w, h)
CreateTintedCanvas(asset, color, w, h) ==
    [asset |-> asset, color |-> color, w |-> w, h |-> h]

\* addItem(items, asset, x, y, sizeOrW, hOrConfig, config, isDirectDim); kAngle,
\* kColor, kPhase, kMul are its four random draws.
AddItem(its, asset, x, y, sizeOrW, hDirect, cfg, isDirectDim, kAngle, kColor, kPhase, kMul) ==
    LET w == sizeOrW
        h == IF isDirectDim THEN hDirect ELSE DivAspect(sizeOrW, asset)
        color == ItemColor(cfg, kColor)
        cachedCanvas == IF color # NoColor
                        THEN CreateTintedCanvas(asset, color, w, h)
                        ELSE NoCanvas
    IN  Append(its, [assetId |-> asset, x |-> x, y |-> y, w |-> w, h |-> h,
                     angle |-> ItemAngle(cfg, kAngle), color |-> color,
                     cachedCanvas |-> cachedCanvas,
                     animPhase |-> kPhase, animSpeedMul |-> 8 + 2 * kMul])

\* Radii taken from the widths alone
RadiusSum10Width(w1, h1, w2, h2) == 4 * (w1 + w2)

\* r + itemR for two items, times 10: r = Math.max(w, h) / 2 * 0.8
RadiusSum10(w1, h1, w2, h2) == 4 * (Max(w1, h1) + Max(w2, h2))

DistSq(x1, y1, x2, y2) == (x1 - x2) * (x1 - x2) + (y1 - y2) * (y1 - y2)

\* dist < (r + itemR)
TooClose(x, y, w, h, item) ==
    100 * DistSq(x, y, item.x, item.y)
        < RadiusSum10(w, h, item.w, item.h) * RadiusSum10(w, h, item.w, item.h)

Overlaps(its, x, y, w, h) == \E i \in DOMAIN its : TooClose(x, y, w, h, its[i])

\* The draws of one addItem call.  D is the sample of Math.random() in use.
AngleDraws(cfg, D) == IF cfg.rotationRandomness THEN D.rAngle ELSE {0}

ColorDraws(cfg) ==
    IF cfg.useRandomColor /\ Len(cfg.colors) > 0 THEN 1..Len(cfg.colors) ELSE {1}

\* Math.random() * side
CoordDraws(side, D) == {x \in 0..Max(0, U(side) - 1) : x % D.posStep = 0}

\* Math.random() * (maxSize - minSize) + minSize, Math.random() = k / 2
SizeDraw(cfg, k) == U(cfg.minSize) + k * 4 * (cfg.maxSize - cfg.minSize)

MaskInEffect(cfg) == cfg.useMask /\ maskData # NoMask

\* generateLayout returning early on a step < 0 only
EntryPcStepNegative(cfg, registry) ==
    IF registry = {} THEN "done"
    ELSE IF cfg.mode = "grid"
         THEN IF GridStepSize(cfg) < 0 THEN "done" ELSE "grid"
         ELSE "random"

\* generateLayout without its return on an empty registry
EntryPcNoEmptyCheck(cfg, registry) ==
    IF cfg.mode = "grid"
    THEN IF GridStepSize(cfg) <= 0 THEN "done" ELSE "grid"
    ELSE "random"

\* Where generateLayout(cfg) goes after its guards: the early returns (an empty
\* registry, a grid step <= 0) or one of the loops
EntryPc(cfg, registry) ==
    IF registry = {} THEN "done"
    ELSE IF cfg.mode = "grid"
         THEN IF GridStepSize(cfg) <= 0 THEN "done" ELSE "grid"
         ELSE "random"

\* generateLayout(cfg) is entered
StartGen(cfg) ==
    /\ genCfg' = cfg
    /\ items' = <<>>
    /\ count' = 0
    /\ attempts' = 0
    /\ row' = 0
    /\ col' = 0
    /\ genAssets' = assets
    /\ pc' = EntryPc(cfg, assets)

\* No animation-frame callback is pending, animationRef.current is undefined
NoLoop == [pending |-> {}, ref |-> 0]

\* The id requestAnimationFrame returns: one no pending callback has
FreshId(pending) ==
    CHOOSE n \in 1..(Cardinality(pending) + 1) :
        /\ \A cb \in pending : cb.id # n
        /\ \A m \in 1..(n - 1) : \E cb \in pending : cb.id = m

\* cancelAnimationFrame(animationRef.current)
CancelFrame(l) == [l EXCEPT !.pending = {cb \in l.pending : cb.id # l.ref}]

\* animationRef.current = requestAnimationFrame(loop), loop closing over its and cfg
RequestFrame(l, its, cfg) ==
    [pending |-> l.pending \cup {[id |-> FreshId(l.pending), items |-> its, cfg |-> cfg]},
     ref |-> FreshId(l.pending)]

\* The effect without its cleanup
LoopEffectNoCleanup(its, cfg) == loop' = RequestFrame(loop, its, cfg)

\* The effect on [layoutItems, config, engine]: the cleanup of the effect's last run,
\* then its new run
LoopEffect(its, cfg) == loop' = RequestFrame(CancelFrame(loop), its, cfg)

\* The frame and the document of earlier calls are superseded
NoOutput == drawn' = NoFrame /\ svg' = NoSvg /\ earlier' = NoFrame

\* generatePattern: generateLayout(cfg), then setLayoutItems when it returns
GeneratePattern(cfg) ==
    /\ StartGen(cfg)
    /\ NoOutput
    /\ threw' = FALSE

\* One cell of the grid loops
GridCell(D) ==
    LET step == GridStepSize(genCfg)
        cols == GridCols(width, step)
        rows == GridRows(height, step)
        x == GridX(width, step, col)
        y == GridY(height, step, row)
    IN  /\ pc = "grid"
        /\ row < rows
        /\ col' = IF col + 1 < cols THEN col + 1 ELSE 0
        /\ row' = IF col + 1 < cols THEN row ELSE row + 1
        /\ IF MaskInEffect(genCfg) /\ ~CheckMask(maskData, width, height, x, y)
           THEN items' = items
           ELSE \E asset \in assets, kAngle \in AngleDraws(genCfg, D),
                   kColor \in ColorDraws(genCfg), kPhase \in D.rPhase, kMul \in D.rMul :
                    items' = AddItem(items, asset, x, y, U(genCfg.maxSize), 0, genCfg,
                                     FALSE, kAngle, kColor, kPhase, kMul)
        /\ UNCHANGED <<uploads, loop, maskFailed, earlier, engineVars, config, layoutItems, timer, usedIds, pc, genCfg,
                       count, attempts, genAssets, genOut, drawn, svg, threw>>

MaxAttempts(cfg) == cfg.density * AttemptFactor

\* The loop condition with count <= density
LoopGuardOffByOne(cfg, cnt, att) == cnt <= cfg.density /\ att < MaxAttempts(cfg)

\* The loop condition without the attempt budget
LoopGuardNoBudget(cfg, cnt, att) == cnt < cfg.density

\* while (count < config.density && attempts < maxAttempts)
LoopGuard(cfg, cnt, att) == cnt < cfg.density /\ att < MaxAttempts(cfg)

\* One iteration of the random-mode while loop
RandomAttempt(D) ==
    /\ pc = "random"
    /\ LoopGuard(genCfg, count, attempts)
    /\ attempts' = attempts + 1
    /\ \E x \in CoordDraws(width, D), y \in CoordDraws(height, D) :
         IF MaskInEffect(genCfg) /\ ~CheckMask(maskData, width, height, x, y)
         THEN items' = items /\ count' = count
         ELSE \E kSize \in D.rSize, asset \in assets :
                LET w == SizeDraw(genCfg, kSize)
                    h == DivAspect(w, asset)
                IN  IF genCfg.preventOverlap /\ Overlaps(items, x, y, w, h)
                    THEN items' = items /\ count' = count
                    ELSE /\ \E kAngle \in AngleDraws(genCfg, D), kColor \in ColorDraws(genCfg),
                               kPhase \in D.rPhase, kMul \in D.rMul :
                                items' = AddItem(items, asset, x, y, w, h, genCfg, TRUE,
                                                 kAngle, kColor, kPhase, kMul)
                         /\ count' = count + 1
    /\ UNCHANGED <<uploads, loop, maskFailed, earlier, engineVars, config, layoutItems, timer, usedIds, pc, genCfg,
                   row, col, genAssets, genOut, drawn, svg, threw>>

\* generateLayout has reached its return statement: an early return, or the end
\* of the loops
AtReturn ==
    \/ pc = "done"
    \/ pc = "grid" /\ row >= GridRows(height, GridStepSize(genCfg))
    \/ pc = "random" /\ ~LoopGuard(genCfg, count, attempts)

\* return items, which ends the call's frame; and the caller's setLayoutItems(newItems)
GenReturn ==
    /\ AtReturn
    /\ pc' = "idle"
    /\ layoutItems' = items
    /\ LoopEffect(items, config)
    /\ genOut' = items
    /\ items' = <<>>
    /\ count' = 0
    /\ attempts' = 0
    /\ row' = 0
    /\ col' = 0
    /\ UNCHANGED <<uploads, maskFailed, earlier, engineVars, config, timer, usedIds, genCfg, genAssets, drawn, svg, threw>>

----------------------------------------------------------------------------
(* Renderer.  The timestamp's unit is the time in which time * 0.002 grows  *)
(* by pi/4, so that time * speed is a number of eighths of a turn; sin and  *)
(* cos are sampled there, times 1000.  Offsets are in 1/2000 px.            *)

Sin8(k) == <<0, 707, 1000, 707, 0, -707, -1000, -707>>[(k % 8) + 1]

Cos8(k) == Sin8(k + 2)

\* dy = Math.sin(time * speed * item.animSpeedMul + item.animPhase) * amp
AnimDy(item, cfg, time) ==
    IF cfg.enableAnim
    THEN 2 * cfg.animAmplitude
           * Sin8((time * cfg.animSpeed * item.animSpeedMul) \div 10 + item.animPhase)
    ELSE 0

\* dx = Math.cos(time * speed * item.animSpeedMul * 0.7 + item.animPhase) * (amp * 0.5)
AnimDx(item, cfg, time) ==
    IF cfg.enableAnim
    THEN cfg.animAmplitude
           * Cos8((time * cfg.animSpeed * item.animSpeedMul * 7) \div 100 + item.animPhase)
    ELSE 0

\* dRot = Math.sin(time * speed * item.animSpeedMul * 0.5) * 0.05, in 1/20000 rad
AnimDRot(item, cfg, time) ==
    IF cfg.enableAnim
    THEN Sin8((time * cfg.animSpeed * item.animSpeedMul * 5) \div 100)
    ELSE 0

\* What the loop body of render issues for one item: save, translate, rotate,
\* at most one drawImage, restore.
DrawItem(item, cfg, time) ==
    [tx |-> 250 * item.x + AnimDx(item, cfg, time),
     ty |-> 250 * item.y + AnimDy(item, cfg, time),
     turn |-> item.angle,
     wobble |-> AnimDRot(item, cfg, time),
     image |-> IF item.cachedCanvas # NoCanvas THEN "cachedCanvas"
               ELSE IF item.assetId \in assets THEN "asset"
               ELSE "none",
     assetId |-> item.assetId,
     ox |-> 0 - item.w \div 2,
     oy |-> 0 - item.h \div 2,
     w |-> item.w,
     h |-> item.h]

\* A render whose rotation builds on the frame drawn before
RenderDrift(its, cfg, time) ==
    [called |-> TRUE,
     time |-> time,
     anim |-> cfg.enableAnim,
     cleared |-> ctx,
     maskBg |-> ctx /\ cfg.useMask /\ cfg.showMaskBg /\ maskCanvas,
     ops |-> IF ctx
             THEN [i \in 1..Len(its) |->
                      [DrawItem(its[i], cfg, time) EXCEPT
                          !.turn = IF drawn.called THEN (@ + 1) % 8 ELSE @]]
             ELSE <<>>]

\* render(items, config, time): the frame it draws
Render(its, cfg, time) ==
    IF ~ctx THEN [called |-> TRUE, time |-> time, anim |-> cfg.enableAnim,
                  cleared |-> FALSE, maskBg |-> FALSE, ops |-> <<>>]
    ELSE [called |-> TRUE,
          time |-> time,
          anim |-> cfg.enableAnim,
          cleared |-> TRUE,
          maskBg |-> cfg.useMask /\ cfg.showMaskBg /\ maskCanvas,
          ops |-> [i \in 1..Len(its) |-> DrawItem(its[i], cfg, time)]]

----------------------------------------------------------------------------
(* Vector exporter *)

InRegistry(item) == item.assetId \in assets

\* One <g> element; deg = item.angle * (180 / Math.PI)
SvgElement(item) ==
    LET asset == AssetInfo(item.assetId)
        vector == asset.type = "svg" /\ asset.vectorContent
    IN  [tag |-> IF vector THEN "svg" ELSE "image",
         x |-> item.x,
         y |-> item.y,
         deg |-> 45 * item.angle,
         ox |-> 0 - item.w \div 2,
         oy |-> 0 - item.h \div 2,
         w |-> item.w,
         h |-> item.h,
         fill |-> IF vector THEN item.color ELSE NoColor,
         assetId |-> item.assetId]

\* An export that takes x from the frame last drawn
ExportSVGAnimated(its) ==
    LET kept == SelectSeq(its, InRegistry)
    IN  [called |-> TRUE, width |-> width, height |-> height,
         elems |-> [i \in 1..Len(kept) |->
                      [SvgElement(kept[i]) EXCEPT
                          !.x = IF drawn.called /\ i <= Len(drawn.ops)
                                THEN drawn.ops[i].tx \div 250 ELSE @]]]

\* exportSVG(items)
ExportSVG(its) ==
    LET kept == SelectSeq(its, InRegistry)
    IN  [called |-> TRUE, width |-> width, height |-> height,
         elems |-> [i \in 1..Len(kept) |-> SvgElement(kept[i])]]

----------------------------------------------------------------------------
(* The App component's handlers.  D is the sample of inputs in use: canvas  *)
(* sizes, values of the controls, files, timestamps and Math.random().      *)

\* The effect on [config]: if (assets.length > 0) generatePattern()
ConfigEffect(cfg) ==
    IF assets # {} THEN GeneratePattern(cfg)
    ELSE /\ UNCHANGED frameVars
         /\ NoOutput
         /\ threw' = FALSE

\* handleResize: setContext, then generatePattern of the first render's closure
HandleResize(D) ==
    /\ pc = "idle"
    /\ \E d \in D.dims :
         /\ ctx' = TRUE
         /\ width' = d[1]
         /\ height' = d[2]
    /\ GeneratePattern(DEFAULT_CONFIG)
    /\ UNCHANGED <<uploads, loop, maskFailed, assets, maskData, maskCanvas, config, layoutItems, timer, usedIds, genOut>>

\* A control is shown and enabled
ControlEnabled(f) ==
    CASE f \in {"density", "minSize", "preventOverlap"} -> config.mode = "random"
      [] f = "gridGap" -> config.mode = "grid"
      [] f = "useMask" -> maskData # NoMask
      [] f = "showMaskBg" -> config.useMask
      [] f \in {"animAmplitude", "animSpeed"} -> config.enableAnim
      [] OTHER -> TRUE

\* A control's onChange: setConfig, and the effect on [config]
SetConfig(D) ==
    /\ pc = "idle"
    /\ \E f \in DOMAIN D.cfg :
         /\ ControlEnabled(f)
         /\ \E v \in D.cfg[f] :
              /\ v # config[f]
              /\ config' = [config EXCEPT ![f] = v]
    /\ ConfigEffect(config')
    /\ LoopEffect(layoutItems, config')
    /\ UNCHANGED <<uploads, maskFailed, engineVars, layoutItems, timer, usedIds, genOut>>

\* The regenerate button
Regenerate ==
    /\ pc = "idle"
    /\ GeneratePattern(config)
    /\ UNCHANGED <<uploads, loop, maskFailed, engineVars, config, layoutItems, timer, usedIds, genOut>>

\* handleAssetUpload, once the files of a batch are read: setAssets, the effect's
\* engine.setAssets, and the timer when the asset list was empty
HandleAssetUpload(D) ==
    /\ pc = "idle"
    /\ \E batch \in SUBSET (D.ids \ usedIds) :
         /\ batch # {}
         /\ assets' = assets \cup batch
         /\ usedIds' = usedIds \cup batch
    /\ timer' = IF assets = {} THEN Append(timer, config) ELSE timer
    /\ NoOutput
    /\ threw' = FALSE
    /\ UNCHANGED <<uploads, loop, maskFailed, ctx, width, height, maskData, maskCanvas, config, layoutItems,
                   frameVars, genOut>>

\* setTimeout(generatePattern, 100) fires
TimerFires ==
    /\ pc = "idle"
    /\ timer # <<>>
    /\ timer' = Tail(timer)
    /\ GeneratePattern(Head(timer))
    /\ UNCHANGED <<uploads, loop, maskFailed, engineVars, config, layoutItems, usedIds, genOut>>

\* removeAsset, and the effect's engine.setAssets
RemoveAsset ==
    /\ pc = "idle"
    /\ \E id \in assets : assets' = assets \ {id}
    /\ NoOutput
    /\ threw' = FALSE
    /\ UNCHANGED <<uploads, loop, maskFailed, ctx, width, height, maskData, maskCanvas, config, layoutItems, timer,
                   usedIds, frameVars, genOut>>

\* The ids of the assets a handleAssetUpload call has pushed to its newAssets
NewIds(b) == {b.newAssets[i].id : i \in DOMAIN b.newAssets}

\* processedCount >= 1, in place of the comparison with files.length
BatchCompleteAny(b) == b.processedCount >= 1

\* processedCount === files.length
BatchComplete(b) == b.processedCount = Cardinality(b.files)

\* handleAssetUpload(fileList): newAssets = [], processedCount = 0 and one FileReader
\* per file; the callbacks close over the assets and the generatePattern (hence the
\* config) of the render the handler belongs to.  appends counts the setAssets calls.
StartUpload(D) ==
    /\ pc = "idle"
    /\ \E files \in D.fileLists :
         /\ \A b \in uploads : b.files # files
         /\ uploads' = uploads \cup {[files |-> files,
                                      reading |-> files,
                                      loading |-> {},
                                      newAssets |-> <<>>,
                                      processedCount |-> 0,
                                      assets |-> assets,
                                      cfg |-> config,
                                      appends |-> 0]}
    /\ NoOutput
    /\ threw' = FALSE
    /\ UNCHANGED <<loop, maskFailed, engineVars, config, layoutItems, timer, usedIds,
                   frameVars, genOut>>

\* reader.onload of one file: an Image is created and its src set
ReaderLoads ==
    /\ pc = "idle"
    /\ \E b \in uploads :
         \E f \in b.reading :
            uploads' = (uploads \ {b}) \cup {[b EXCEPT !.reading = @ \ {f},
                                                       !.loading = @ \cup {f}]}
    /\ NoOutput
    /\ threw' = FALSE
    /\ UNCHANGED <<loop, maskFailed, engineVars, config, layoutItems, timer, usedIds,
                   frameVars, genOut>>

\* img.onload of one file, finalize: the asset is pushed under a fresh id and counted;
\* the callback that completes the count calls setAssets(prev => [...prev,
\* ...newAssets]) (with the effect's engine.setAssets) and sets the timer when the
\* closure's asset list is empty
ImageLoads(D) ==
    /\ pc = "idle"
    /\ \E b \in uploads :
         \E f \in b.loading, id \in D.ids \ usedIds :
            LET pushed == [b EXCEPT !.loading = @ \ {f},
                                    !.newAssets = Append(@, [id |-> id, file |-> f]),
                                    !.processedCount = @ + 1]
                complete == BatchComplete(pushed)
            IN  /\ uploads' = (uploads \ {b}) \cup
                       {[pushed EXCEPT !.appends = IF complete THEN @ + 1 ELSE @]}
                /\ usedIds' = usedIds \cup {id}
                /\ assets' = IF complete THEN assets \cup NewIds(pushed) ELSE assets
                /\ timer' = IF complete /\ b.assets = {} THEN Append(timer, b.cfg)
                            ELSE timer
    /\ NoOutput
    /\ threw' = FALSE
    /\ UNCHANGED <<loop, maskFailed, ctx, width, height, maskData, maskCanvas, config,
                   layoutItems, frameVars, genOut>>

\* handleMaskUpload's img.onload: engine.setMask(img), then setConfig(useMask: true)
\* and the effect on [config].  ctx2d: the offscreen canvas gives a 2D context.
HandleMaskUpload(D) ==
    /\ pc = "idle"
    /\ \E img \in D.imgs, ctx2d \in D.ctx2d :
         IF ctx2d /\ GetImageDataThrows(width, height)
         THEN /\ threw' = TRUE
              /\ maskFailed' = TRUE
              /\ NoOutput
              /\ UNCHANGED <<maskData, maskCanvas, config, frameVars, loop>>
         ELSE /\ maskData' = IF ctx2d THEN BuildMask(img, width, height) ELSE maskData
              /\ maskCanvas' = IF ctx2d THEN TRUE ELSE maskCanvas
              /\ maskFailed' = ~ctx2d
              /\ config' = [config EXCEPT !.useMask = TRUE]
              /\ ConfigEffect(config')
              /\ LoopEffect(layoutItems, config')
    /\ UNCHANGED <<uploads, ctx, width, height, assets, layoutItems, timer, usedIds, genOut>>

\* One frame of the animation loop: a pending callback runs engine.render(layoutItems,
\* config, time) on its closure's values and requests the next frame
RenderFrame(D) ==
    /\ pc = "idle"
    /\ \E cb \in loop.pending, time \in D.times :
         /\ drawn' = Render(cb.items, cb.cfg, time)
         /\ loop' = RequestFrame([loop EXCEPT !.pending = @ \ {cb}], cb.items, cb.cfg)
    /\ earlier' \in {earlier, drawn'}
    /\ svg' = NoSvg
    /\ threw' = FALSE
    /\ UNCHANGED <<uploads, maskFailed, engineVars, config, layoutItems, timer, usedIds, frameVars, genOut>>

\* downloadImage: engine.render(layoutItems, {...config, enableAnim: false}, 0)
DownloadImage ==
    /\ pc = "idle"
    /\ drawn' = Render(layoutItems, [config EXCEPT !.enableAnim = FALSE], 0)
    /\ earlier' \in {earlier, drawn'}
    /\ svg' = NoSvg
    /\ threw' = FALSE
    /\ UNCHANGED <<uploads, loop, maskFailed, engineVars, config, layoutItems, timer, usedIds, frameVars, genOut>>

\* downloadSVG: engine.exportSVG(layoutItems)
DownloadSVG ==
    /\ pc = "idle"
    /\ svg' = ExportSVG(layoutItems)
    /\ threw' = FALSE
    /\ UNCHANGED <<uploads, loop, maskFailed, earlier, engineVars, config, layoutItems, timer, usedIds, frameVars, genOut, drawn>>

----------------------------------------------------------------------------
(* The state after new PatternEngine() and the component's useState calls,  *)
(* with the animation loop's effect run once                                 *)

Init ==
    /\ ctx = FALSE
    /\ width = 0
    /\ height = 0
    /\ assets = {}
    /\ maskData = NoMask
    /\ maskCanvas = FALSE
    /\ config = DEFAULT_CONFIG
    /\ layoutItems = <<>>
    /\ timer = <<>>
    /\ usedIds = {}
    /\ pc = "idle"
    /\ genCfg = DEFAULT_CONFIG
    /\ items = <<>>
    /\ count = 0
    /\ attempts = 0
    /\ row = 0
    /\ col = 0
    /\ genAssets = {}
    /\ genOut = <<>>
    /\ drawn = NoFrame
    /\ svg = NoSvg
    /\ threw = FALSE
    /\ maskFailed = FALSE
    /\ earlier = NoFrame
    /\ loop = RequestFrame(NoLoop, <<>>, DEFAULT_CONFIG)
    /\ uploads = {}

\* generatePattern() has just been called by a handler: the engine holds a canvas
\* size, a registry and possibly a mask, the component a config and an empty layout,
\* which the animation loop is drawing
InitCall(D) ==
    \E d \in D.dims, reg \in D.registries, m \in D.masks, cfg \in D.configs :
        /\ ctx = TRUE
        /\ width = d[1]
        /\ height = d[2]
        /\ assets = reg
        /\ maskData = m
        /\ maskCanvas = (m # NoMask)
        /\ config = cfg
        /\ layoutItems = <<>>
        /\ timer = <<>>
        /\ usedIds = reg
        /\ pc = EntryPc(cfg, reg)
        /\ genCfg = cfg
        /\ items = <<>>
        /\ count = 0
        /\ attempts = 0
        /\ row = 0
        /\ col = 0
        /\ genAssets = reg
        /\ genOut = <<>>
        /\ drawn = NoFrame
        /\ svg = NoSvg
        /\ threw = FALSE
        /\ maskFailed = (cfg.useMask /\ m = NoMask)
        /\ earlier = NoFrame
        /\ loop = RequestFrame(NoLoop, <<>>, cfg)
        /\ uploads = {}

----------------------------------------------------------------------------
(* Samples of inputs *)

Dark == <<0, 0, 0, 255>>
Faint == <<0, 0, 0, 50>>

Image(w, h, pix) == [w |-> w, h |-> h, pix |-> pix]

\* Random mode on a canvas of one sample position: every candidate after the first
\* overlaps, a mask lets every candidate pass or none
BudgetScope ==
    [dims |-> {<<1, 1>>},
     cfg |-> [density |-> 0..MaxDensity, preventOverlap |-> BOOLEAN, useMask |-> BOOLEAN],
     ids |-> {"a"},
     imgs |-> {Image(1, 1, Dark), Image(1, 1, Faint)},
     ctx2d |-> {TRUE},
     times |-> {},
     posStep |-> 8,
     rSize |-> {0},
     rAngle |-> {0},
     rPhase |-> {0},
     rMul |-> {0}]

NextBudget ==
    \/ HandleResize(BudgetScope)
    \/ SetConfig(BudgetScope)
    \/ Regenerate
    \/ HandleAssetUpload(BudgetScope)
    \/ TimerFires
    \/ HandleMaskUpload(BudgetScope)
    \/ RandomAttempt(BudgetScope)
    \/ GenReturn

\* The loop of generateLayout runs on once entered, and the call returns
SpecBudget ==
    Init /\ [][NextBudget]_vars
         /\ WF_vars(RandomAttempt(BudgetScope)) /\ WF_vars(GenReturn)


\* A call of generateLayout, preventOverlap on or off, in both modes: two assets of
\* aspect ratios 1 and 1/2, sizes of 1 and 1.5 px on a canvas 3 px wide
OverlapScope ==
    [dims |-> {<<3, 1>>},
     registries |-> {{"a"}, {"a", "c"}},
     masks |-> {NoMask},
     configs |->
        {[DEFAULT_CONFIG EXCEPT !.mode = "random", !.density = n, !.maxSize = s,
                                !.preventOverlap = o, !.rotationRandomness = FALSE,
                                !.useRandomColor = FALSE] :
            n \in 0..MaxDensity, s \in {1, 2}, o \in BOOLEAN}
        \cup
        {[DEFAULT_CONFIG EXCEPT !.mode = "grid", !.maxSize = s, !.gridGap = g,
                                !.preventOverlap = o, !.rotationRandomness = FALSE,
                                !.useRandomColor = FALSE] :
            s \in {1, 2}, g \in {-1, 0, 1}, o \in BOOLEAN},
     posStep |-> 8,
     rSize |-> {0, 1},
     rAngle |-> {0},
     rPhase |-> {0},
     rMul |-> {0}]

NextOverlap ==
    \/ GridCell(OverlapScope)
    \/ RandomAttempt(OverlapScope)
    \/ GenReturn

SpecOverlap == InitCall(OverlapScope) /\ [][NextOverlap]_vars


\* A call of generateLayout in Grid mode on every canvas up to MaxDim x MaxDim, with
\* steps of -1 to 3 px, without a mask and with a mask built for a 1 x 1 canvas
GridScope ==
    [dims |-> {<<w, h>> : w \in 0..MaxDim, h \in 0..MaxDim},
     registries |-> {{"a"}, {"b"}},
     masks |-> {NoMask, BuildMask(Image(1, 1, Dark), 1, 1)},
     configs |->
        {[DEFAULT_CONFIG EXCEPT !.mode = "grid", !.maxSize = s, !.gridGap = g,
                                !.useMask = m, !.rotationRandomness = FALSE,
                                !.useRandomColor = FALSE] :
            s \in {1, 2}, g \in {-2, -1, 0, 1}, m \in BOOLEAN},
     posStep |-> 8,
     rSize |-> {0},
     rAngle |-> {0},
     rPhase |-> {0},
     rMul |-> {0}]

NextGrid ==
    \/ GridCell(GridScope)
    \/ GenReturn

SpecGrid == InitCall(GridScope) /\ [][NextGrid]_vars


\* A call of generateLayout in both modes with rotationRandomness on and off, with
\* Math.random() over the eighths 0/8 .. 7/8 for the angle
RotationScope ==
    [dims |-> {<<1, 1>>},
     registries |-> {{"a"}},
     masks |-> {NoMask},
     configs |->
        {[DEFAULT_CONFIG EXCEPT !.mode = m, !.density = n, !.maxSize = 1, !.gridGap = 0,
                                !.preventOverlap = FALSE, !.rotationRandomness = r,
                                !.useRandomColor = FALSE] :
            m \in {"random", "grid"}, n \in 1..MaxDensity, r \in BOOLEAN},
     posStep |-> 8,
     rSize |-> {0},
     rAngle |-> 0..7,
     rPhase |-> {0},
     rMul |-> {0}]

NextRotation ==
    \/ GridCell(RotationScope)
    \/ RandomAttempt(RotationScope)
    \/ GenReturn

SpecRotation == InitCall(RotationScope) /\ [][NextRotation]_vars


\* A call of generateLayout and what the host does with its result: frames of the
\* animation loop at the times 0..MaxTime, the two downloads, and removals of assets.
\* The registry holds no, one or two assets; items are tinted or not.
OutputScope ==
    [dims |-> {<<1, 1>>},
     registries |-> {{}, {"a"}, {"a", "b"}},
     masks |-> {NoMask, BuildMask(Image(1, 1, Dark), 1, 1)},
     configs |->
        {[DEFAULT_CONFIG EXCEPT !.mode = m, !.density = n, !.maxSize = 1, !.gridGap = 0,
                                !.preventOverlap = FALSE, !.useRandomColor = c,
                                !.enableAnim = a, !.useMask = u] :
            m \in {"random", "grid"}, n \in 0..MaxDensity, c \in BOOLEAN, a \in BOOLEAN,
            u \in BOOLEAN},
     times |-> 0..MaxTime,
     posStep |-> 8,
     rSize |-> {0},
     rAngle |-> {1},
     rPhase |-> {0},
     rMul |-> {0}]

NextOutput ==
    \/ GridCell(OutputScope)
    \/ RandomAttempt(OutputScope)
    \/ GenReturn
    \/ RemoveAsset
    \/ RenderFrame(OutputScope)
    \/ DownloadImage
    \/ DownloadSVG

SpecOutput == InitCall(OutputScope) /\ [][NextOutput]_vars


\* The window is resized between 1 x 2 and 2 x 2, a dark portrait image is uploaded as
\* the mask, and the mask is switched on and off
MaskScope ==
    [dims |-> {<<1, 2>>, <<2, 2>>},
     cfg |-> [useMask |-> BOOLEAN],
     ids |-> {"a"},
     imgs |-> {Image(1, 2, Dark)},
     ctx2d |-> {TRUE},
     times |-> {},
     posStep |-> 8,
     rSize |-> {0},
     rAngle |-> {0},
     rPhase |-> {0},
     rMul |-> {0}]

NextMask ==
    \/ HandleResize(MaskScope)
    \/ SetConfig(MaskScope)
    \/ HandleAssetUpload(MaskScope)
    \/ TimerFires
    \/ HandleMaskUpload(MaskScope)
    \/ RandomAttempt(MaskScope)
    \/ GenReturn

SpecMask == Init /\ [][NextMask]_vars


\* Mask uploads that can fail: the canvas is 1 x 1 or, the container being collapsed,
\* 0 x 1, and the offscreen canvas gives a 2D context or none
MaskFailScope ==
    [dims |-> {<<0, 1>>, <<1, 1>>},
     cfg |-> [useMask |-> BOOLEAN],
     ids |-> {"a"},
     imgs |-> {Image(1, 1, Dark)},
     ctx2d |-> BOOLEAN,
     times |-> {},
     posStep |-> 8,
     rSize |-> {0},
     rAngle |-> {0},
     rPhase |-> {0},
     rMul |-> {0}]

NextMaskFail ==
    \/ HandleResize(MaskFailScope)
    \/ SetConfig(MaskFailScope)
    \/ HandleAssetUpload(MaskFailScope)
    \/ TimerFires
    \/ HandleMaskUpload(MaskFailScope)
    \/ RandomAttempt(MaskFailScope)
    \/ GenReturn

SpecMaskFail == Init /\ [][NextMaskFail]_vars


\* A call of generateLayout on a 3 x 2 canvas, in both modes, with useMask on and off:
\* without a mask, with the mask of a portrait image (the middle column is active),
\* with the mask of a square image (every pixel is active) and with a mask built
\* when the canvas was 1 x 2
MaskedScope ==
    [dims |-> {<<3, 2>>},
     registries |-> {{"a"}},
     masks |-> {NoMask, BuildMask(Image(1, 2, Dark), 3, 2),
                BuildMask(Image(1, 1, Dark), 3, 2), BuildMask(Image(1, 2, Dark), 1, 2)},
     configs |->
        {[DEFAULT_CONFIG EXCEPT !.mode = "random", !.density = n, !.maxSize = 1,
                                !.preventOverlap = FALSE, !.useMask = u,
                                !.rotationRandomness = FALSE, !.useRandomColor = FALSE] :
            n \in 1..MaxDensity, u \in BOOLEAN}
        \cup
        {[DEFAULT_CONFIG EXCEPT !.mode = "grid", !.maxSize = s, !.gridGap = 0,
                                !.useMask = u, !.rotationRandomness = FALSE,
                                !.useRandomColor = FALSE] :
            s \in {1, 2}, u \in BOOLEAN},
     posStep |-> 8,
     rSize |-> {0},
     rAngle |-> {0},
     rPhase |-> {0},
     rMul |-> {0}]

NextMasked ==
    \/ GridCell(MaskedScope)
    \/ RandomAttempt(MaskedScope)
    \/ GenReturn

SpecMasked == InitCall(MaskedScope) /\ [][NextMasked]_vars


\* A call of generateLayout in both modes with useRandomColor on and off and a palette
\* of no, one or two colours
ColorScope ==
    [dims |-> {<<1, 1>>},
     registries |-> {{"a"}, {"b"}},
     masks |-> {NoMask},
     configs |->
        {[DEFAULT_CONFIG EXCEPT !.mode = m, !.density = n, !.maxSize = 2, !.gridGap = 0,
                                !.preventOverlap = FALSE, !.rotationRandomness = FALSE,
                                !.useRandomColor = c, !.colors = p] :
            m \in {"random", "grid"}, n \in 1..MaxDensity, c \in BOOLEAN,
            p \in {<<>>, <<"#000000">>, <<"#000000", "#ff0000">>}},
     posStep |-> 8,
     rSize |-> {0},
     rAngle |-> {0},
     rPhase |-> {0},
     rMul |-> {0}]

NextColor ==
    \/ GridCell(ColorScope)
    \/ RandomAttempt(ColorScope)
    \/ GenReturn

SpecColor == InitCall(ColorScope) /\ [][NextColor]_vars


\* A call of generateLayout in Random mode for every pair of positions of the minSize
\* and maxSize sliders in 1..3 px, with Math.random() = 0 and 1/2 for the size
SizeScope ==
    [dims |-> {<<1, 1>>},
     registries |-> {{"a"}, {"b"}, {"c"}},
     masks |-> {NoMask},
     configs |->
        {[DEFAULT_CONFIG EXCEPT !.density = n, !.minSize = lo, !.maxSize = hi,
                                !.preventOverlap = FALSE, !.rotationRandomness = FALSE,
                                !.useRandomColor = FALSE] :
            n \in 1..MaxDensity, lo \in 1..3, hi \in 1..3},
     posStep |-> 8,
     rSize |-> {0, 1},
     rAngle |-> {0},
     rPhase |-> {0},
     rMul |-> {0}]

NextSize ==
    \/ RandomAttempt(SizeScope)
    \/ GenReturn

SpecSize == InitCall(SizeScope) /\ [][NextSize]_vars


\* The window takes every size from 1 x 1 to MaxDim x MaxDim, and reference images of
\* the aspect ratios 1, 2, 1/2, 3 and 1/3 are uploaded as the mask
FitScope ==
    [dims |-> {<<w, h>> : w \in 1..MaxDim, h \in 1..MaxDim},
     cfg |-> [useMask |-> BOOLEAN],
     ids |-> {},
     imgs |-> {Image(1, 1, Dark), Image(2, 1, Dark), Image(1, 2, Dark),
               Image(3, 1, Dark), Image(1, 3, Dark)},
     ctx2d |-> {TRUE},
     times |-> {},
     posStep |-> 8,
     rSize |-> {0},
     rAngle |-> {0},
     rPhase |-> {0},
     rMul |-> {0}]

NextFit ==
    \/ HandleResize(FitScope)
    \/ SetConfig(FitScope)
    \/ HandleMaskUpload(FitScope)
    \/ GenReturn

SpecFit == Init /\ [][NextFit]_vars


\* The animation loop under changes of the config and of the layout: the animation is
\* switched on and off, a mask and an asset are uploaded, the window is resized, and
\* frames are drawn at the times 0..MaxTime
LoopScope ==
    [dims |-> {<<1, 1>>},
     cfg |-> [enableAnim |-> BOOLEAN, preventOverlap |-> BOOLEAN],
     ids |-> {"a"},
     imgs |-> {Image(1, 1, Dark)},
     ctx2d |-> {TRUE},
     times |-> 0..MaxTime,
     posStep |-> 8,
     rSize |-> {0},
     rAngle |-> {0},
     rPhase |-> {0},
     rMul |-> {0}]

NextLoop ==
    \/ HandleResize(LoopScope)
    \/ SetConfig(LoopScope)
    \/ Regenerate
    \/ HandleAssetUpload(LoopScope)
    \/ TimerFires
    \/ HandleMaskUpload(LoopScope)
    \/ RandomAttempt(LoopScope)
    \/ GenReturn
    \/ RenderFrame(LoopScope)

SpecLoop == Init /\ [][NextLoop]_vars


\* The asset list under uploads and removals: two files, uploaded alone or as one
\* batch and removed in any order, on a mounted or not yet mounted canvas
AssetScope ==
    [dims |-> {<<1, 1>>},
     ids |-> {"a", "b"},
     posStep |-> 8,
     rSize |-> {0},
     rAngle |-> {0},
     rPhase |-> {0},
     rMul |-> {0}]

NextAssets ==
    \/ HandleResize(AssetScope)
    \/ HandleAssetUpload(AssetScope)
    \/ TimerFires
    \/ RemoveAsset
    \/ RandomAttempt(AssetScope)
    \/ GenReturn

SpecAssets == Init /\ [][NextAssets]_vars


\* Regenerations under config changes: overlap prevention and the mode are switched,
\* the window is resized, the regenerate button is pressed, one asset is uploaded
ClosureScope ==
    [dims |-> {<<1, 1>>},
     cfg |-> [preventOverlap |-> BOOLEAN, mode |-> {"random", "grid"}],
     ids |-> {"a"},
     posStep |-> 8,
     rSize |-> {0},
     rAngle |-> {0},
     rPhase |-> {0},
     rMul |-> {0}]

NextClosure ==
    \/ HandleResize(ClosureScope)
    \/ SetConfig(ClosureScope)
    \/ Regenerate
    \/ HandleAssetUpload(ClosureScope)
    \/ TimerFires
    \/ GridCell(ClosureScope)
    \/ RandomAttempt(ClosureScope)
    \/ GenReturn

SpecClosure == Init /\ [][NextClosure]_vars


\* Upload batches: the file lists a handleAssetUpload call may be given (none, one,
\* two files), each given once, their callbacks in any order, between removals
UploadScope ==
    [fileLists |-> {{}, {"p"}, {"q", "r"}},
     ids |-> {"a", "b", "c"}]

NextUpload ==
    \/ StartUpload(UploadScope)
    \/ ReaderLoads
    \/ ImageLoads(UploadScope)
    \/ RemoveAsset

SpecUpload == Init /\ [][NextUpload]_vars

----------------------------------------------------------------------------
(* Properties *)

RandomLoopExit == pc = "random" /\ ~LoopGuard(genCfg, count, attempts)

\* C1: in Random mode with a non-empty registry, density N, masking not in effect
\* and preventOverlap off, generateLayout returns exactly N items and has used
\* exactly N attempts.
C1_RandomExactCount ==
    (RandomLoopExit /\ ~MaskInEffect(genCfg) /\ ~genCfg.preventOverlap)
        => /\ Len(items) = genCfg.density
           /\ attempts = genCfg.density

C1_Witness ==
    /\ RandomLoopExit
    /\ ~MaskInEffect(genCfg)
    /\ ~genCfg.preventOverlap
    /\ genCfg.density >= 2
    /\ Len(items) = genCfg.density
    /\ maskData # NoMask

\* C8: Random-mode generateLayout terminates for every mask and overlap setting:
\* an iteration consumes exactly one attempt, and a slot only when the candidate is
\* accepted; at the return at most density items are placed, at most 50 * density
\* attempts are used, and either density items are placed or the attempts are
\* used up.
C8_RandomTerminates ==
    /\ [][(pc = "random" /\ pc' = "random")
            => /\ attempts' = attempts + 1
               /\ \/ count' = count /\ items' = items
                  \/ count' = count + 1 /\ Len(items') = Len(items) + 1]_vars
    /\ [](pc = "random"
            => /\ Len(items) = count
               /\ count <= genCfg.density
               /\ attempts <= AttemptFactor * genCfg.density
               /\ RandomLoopExit
                    => \/ count = genCfg.density
                       \/ attempts = AttemptFactor * genCfg.density)
    /\ (pc = "random") ~> (pc = "idle")

C8_Witness ==
    /\ RandomLoopExit
    /\ genCfg.density >= 2
    /\ attempts = AttemptFactor * genCfg.density
    /\ count = 1
    /\ genCfg.preventOverlap

\* distance(center_i, center_j) >= 0.8 * (max(w_i, h_i) + max(w_j, h_j)) / 2
Apart(a, b) ==
    25 * ((a.x - b.x) * (a.x - b.x) + (a.y - b.y) * (a.y - b.y))
        >= 4 * (Max(a.w, a.h) + Max(b.w, b.h)) * (Max(a.w, a.h) + Max(b.w, b.h))

AllApart(its) == \A i, j \in DOMAIN its : i # j => Apart(its[i], its[j])

\* C2 as stated: with preventOverlap enabled, in either mode, every pair of distinct
\* returned items is at least 0.8 * (max(w_i, h_i) + max(w_j, h_j)) / 2 apart.
C2_ApartEitherMode == (AtReturn /\ genCfg.preventOverlap) => AllApart(items)

\* C2 amended: with preventOverlap enabled in Random mode, every pair of distinct
\* returned items is at least 0.8 * (max(w_i, h_i) + max(w_j, h_j)) / 2 apart.
C2_ApartRandomMode ==
    (AtReturn /\ genCfg.preventOverlap /\ genCfg.mode = "random") => AllApart(items)

\* Two items are returned at exactly the sum of their radii, after a candidate was
\* rejected
C2_Witness ==
    /\ AtReturn
    /\ genCfg.preventOverlap
    /\ genCfg.mode = "random"
    /\ Len(items) = 2
    /\ attempts > 2
    /\ 25 * DistSq(items[1].x, items[1].y, items[2].x, items[2].y)
         = 4 * (Max(items[1].w, items[1].h) + Max(items[2].w, items[2].h))
             * (Max(items[1].w, items[1].h) + Max(items[2].w, items[2].h))

\* ceil(a / b) for a >= 0, b > 0
CeilOf(a, b) == CHOOSE n \in 0..a : n * b >= a /\ (n = 0 \/ (n - 1) * b < a)

\* C3: in Grid mode with step = maxSize + gridGap > 0, a non-empty registry and no
\* mask in effect, generateLayout returns rows * cols items in row-major order, with
\* cols = ceil(width / step) + 1 and rows = ceil(height / step) + 1, adjacent centres
\* exactly step apart, the first centre at or before 0 and the last at or beyond the
\* canvas width and height; maxSize = 40 and gridGap = 10 on 500 x 500 give step 50
\* and cols = rows = 11.
C3_GridLayout ==
    /\ (pc = "grid" /\ AtReturn /\ ~MaskInEffect(genCfg)) =>
          LET step == genCfg.maxSize + genCfg.gridGap
              cols == CeilOf(width, step) + 1
              rows == CeilOf(height, step) + 1
          IN  /\ step > 0
              /\ genAssets # {}
              /\ Len(items) = rows * cols
              /\ \A r \in 0..(rows - 1), c \in 0..(cols - 1) :
                    /\ items[r * cols + c + 1].x = items[1].x + c * U(step)
                    /\ items[r * cols + c + 1].y = items[1].y + r * U(step)
              /\ items[1].x <= 0
              /\ items[1].y <= 0
              /\ items[Len(items)].x >= U(width)
              /\ items[Len(items)].y >= U(height)
    /\ GridStepSize([maxSize |-> 40, gridGap |-> 10]) = 50
    /\ GridCols(500, 50) = 11
    /\ GridRows(500, 50) = 11
    /\ GridX(500, 50, 1) - GridX(500, 50, 0) = U(50)
    /\ GridX(500, 50, 0) <= 0
    /\ GridX(500, 50, 10) >= U(500)

\* A 3 x 2 canvas with a step of 2 px returns 3 columns by 2 rows, a first centre
\* left of the canvas and a last centre right of it
C3_Witness ==
    /\ pc = "grid"
    /\ AtReturn
    /\ ~MaskInEffect(genCfg)
    /\ width = 3
    /\ height = 2
    /\ GridStepSize(genCfg) = 2
    /\ Len(items) = 6
    /\ items[1].x < 0
    /\ items[6].x > U(width)
    /\ items[4].y = items[1].y + U(2)

\* C9: every item generateLayout returns has angle 0 when rotationRandomness is off;
\* with rotationRandomness on the angle is one of 0, pi/2, pi, 3pi/2 (0, 2, 4, 6
\* eighths of a turn) in Grid mode and lies in [0, 2pi) in Random mode.
C9_AnglePolicy ==
    AtReturn =>
        \A i \in DOMAIN items :
            /\ ~genCfg.rotationRandomness => items[i].angle = 0
            /\ (genCfg.rotationRandomness /\ genCfg.mode = "grid")
                  => items[i].angle \in {0, 2, 4, 6}
            /\ (genCfg.rotationRandomness /\ genCfg.mode = "random")
                  => items[i].angle >= 0 /\ items[i].angle < 8

\* A grid of four cells is returned with quarter turns, among them 3pi/2 and pi/2
C9_Witness ==
    /\ AtReturn
    /\ genCfg.rotationRandomness
    /\ genCfg.mode = "grid"
    /\ Len(items) = 4
    /\ items[1].angle = 6
    /\ items[4].angle = 2

\* C4: for every item list and registry, also after an asset was removed and for
\* items with a cached tinted canvas, render draws an item if and only if its asset is
\* in the registry, and exportSVG emits exactly the items whose asset is in the registry.
C4_SkipsMissingMotif ==
    /\ (drawn.called /\ drawn.cleared) =>
          \A i \in DOMAIN layoutItems :
              (drawn.ops[i].image # "none") <=> (layoutItems[i].assetId \in assets)
    /\ svg.called =>
          /\ Len(svg.elems) = Cardinality({i \in DOMAIN layoutItems :
                                               layoutItems[i].assetId \in assets})
          /\ \A i \in DOMAIN svg.elems : svg.elems[i].assetId \in assets

\* C5: after any renders that followed a generateLayout call, with the registry as it
\* was at that call, exportSVG emits one element per item of that call's output, in
\* order, translated to the generated (x, y) and rotated by the generated angle.
C5_ExportIsStaticPose ==
    (svg.called /\ assets = genAssets) =>
        /\ Len(svg.elems) = Len(genOut)
        /\ \A i \in DOMAIN genOut :
              /\ svg.elems[i].x = genOut[i].x
              /\ svg.elems[i].y = genOut[i].y
              /\ svg.elems[i].deg = 45 * genOut[i].angle
              /\ svg.elems[i].assetId = genOut[i].assetId

\* An export of two items follows a frame drawn with animation offsets
C5_Witness ==
    /\ svg.called
    /\ assets = genAssets
    /\ Len(genOut) >= 2
    /\ drawn.called
    /\ \E i \in DOMAIN drawn.ops :
          /\ drawn.ops[i].tx # 250 * genOut[i].x
          /\ drawn.ops[i].ty # 250 * genOut[i].y
    /\ svg.elems[1].deg = 45

\* C10: with an empty registry generateLayout goes straight to its return with no
\* items, in both modes; render of an empty list clears the canvas and draws no item
\* (the mask background is optional), and exportSVG of an empty list has the canvas
\* width and height and no element.
C10_EmptyRegistry ==
    /\ (pc # "idle" /\ genAssets = {}) => AtReturn /\ items = <<>>
    /\ (drawn.called /\ layoutItems = <<>>) => drawn.cleared = ctx /\ drawn.ops = <<>>
    /\ (svg.called /\ layoutItems = <<>>) =>
          svg.elems = <<>> /\ svg.width = width /\ svg.height = height

\* A Grid-mode call with an empty registry has returned; the frame shows the mask
\* background only and the export is the empty shell
C10_Witness ==
    /\ genAssets = {}
    /\ genCfg.mode = "grid"
    /\ pc = "idle"
    /\ genOut = <<>>
    /\ drawn.called
    /\ drawn.cleared
    /\ drawn.maskBg
    /\ drawn.ops = <<>>
    /\ svg.called
    /\ svg.elems = <<>>
    /\ svg.width = 1

\* C6: whenever a mask is present and a generateLayout call tests candidates against
\* it, its buffer was built for the engine's current canvas width and height.
C6_MaskBuiltForCanvas ==
    (maskData # NoMask /\ pc # "idle" /\ MaskInEffect(genCfg)) =>
        maskData.w = width /\ maskData.h = height

\* Pixel (px, py) of the mask image as it was built, no pixel being a transparent one
MaskPixel(m, px, py) ==
    IF px >= 0 /\ px < m.w /\ py >= 0 /\ py < m.h THEN m.px[py * m.w + px] ELSE Transparent

\* Coordinates in and around the canvas, half a pixel apart
Probes == {4 * k : k \in -2..(2 * MaxDim + 2)}

\* C7: with a mask present, checkMask(x, y) is false for every coordinate outside
\* [0, width) x [0, height), and inside it is true if and only if the mask's pixel
\* (floor(x), floor(y)) has alpha > 50 and a mean of R, G, B below 200.
C7_MaskTest ==
    maskData # NoMask =>
        \A x, y \in Probes :
            LET inside == x >= 0 /\ x < U(width) /\ y >= 0 /\ y < U(height)
                p == MaskPixel(maskData, x \div 8, y \div 8)
            IN  CheckMask(maskData, width, height, x, y)
                    = (inside /\ p[4] > 50 /\ p[1] + p[2] + p[3] < 3 * 200)

\* C11: in Grid mode with step = maxSize + gridGap <= 0, generateLayout goes to its
\* return without entering the cell loop and returns an empty list, for every canvas
\* size, registry and mask.
C11_DegenerateStep ==
    (genCfg.mode = "grid" /\ genCfg.maxSize + genCfg.gridGap <= 0) =>
        /\ pc \in {"done", "idle"}
        /\ items = <<>>
        /\ row = 0
        /\ col = 0
        /\ pc = "idle" => genOut = <<>> /\ layoutItems = <<>>

\* A call with a step of -1 px and with a mask in effect has returned
C11_Witness ==
    /\ genCfg.mode = "grid"
    /\ genCfg.maxSize + genCfg.gridGap = -1
    /\ MaskInEffect(genCfg)
    /\ width = MaxDim
    /\ assets # {}
    /\ pc = "idle"
    /\ genOut = <<>>

\* C12: when setMask(img) cannot rasterize, for want of a 2D context or on a canvas of
\* zero size, it raises no error and no mask is present afterwards, whether or not an
\* earlier call had built one.
C12_FailedBuildLeavesNoMask ==
    /\ ~threw
    /\ maskFailed => maskData = NoMask /\ ~maskCanvas

\* C13: a render call changes no item and no engine state (registry, mask, canvas
\* size, bound context), and two render calls with the same items, config and
\* timestamp issue the same sequence of draw operations, whatever render calls came
\* between them.
C13_RenderIsPure ==
    /\ [][(drawn'.called /\ ~svg'.called)
            => UNCHANGED <<ctx, width, height, assets, maskData, maskCanvas,
                           layoutItems, config>>]_vars
    /\ []((earlier.called /\ drawn.called
             /\ earlier.time = drawn.time /\ earlier.anim = drawn.anim)
            => earlier = drawn)

\* Two animated frames of two items at the same time, not the first frame drawn
C13_Witness ==
    /\ earlier.called
    /\ drawn.called
    /\ earlier.time = MaxTime
    /\ drawn.time = MaxTime
    /\ drawn.anim
    /\ earlier.anim
    /\ Len(drawn.ops) = 2
    /\ drawn.ops[1].ty # 250 * layoutItems[1].y
    /\ earlier.ops = drawn.ops

\* The centre is inside the canvas, and the pixel the mask test reads there has
\* alpha > 50 and a mean of R, G, B below 200
OnActivePixel(item) ==
    LET px == item.x \div 8
        py == item.y \div 8
        idx == py * width + px
    IN  /\ item.x >= 0
        /\ item.x < 8 * width
        /\ item.y >= 0
        /\ item.y < 8 * height
        /\ idx \in DOMAIN maskData.px
        /\ maskData.px[idx][4] > 50
        /\ maskData.px[idx][1] + maskData.px[idx][2] + maskData.px[idx][3] < 600

\* C14: with useMask on and a mask present, every item generateLayout places or
\* returns, in Grid and in Random mode, has a centre inside the canvas for which the
\* mask test is true; a cell or candidate that fails the test yields no item.
C14_ItemsPassMaskTest ==
    (genCfg.useMask /\ maskData # NoMask) =>
        /\ \A i \in DOMAIN items : OnActivePixel(items[i])
        /\ pc = "idle" => \A i \in DOMAIN layoutItems : OnActivePixel(layoutItems[i])

\* A grid of step 1 px under the portrait mask returns the two cells of the middle
\* column, out of twelve
C14_Witness ==
    /\ pc = "idle"
    /\ genCfg.mode = "grid"
    /\ genCfg.useMask
    /\ maskData = BuildMask(Image(1, 2, Dark), 3, 2)
    /\ genCfg.maxSize = 1
    /\ Len(layoutItems) = 2
    /\ layoutItems[1].x = 8
    /\ layoutItems[2].y = 8

Tinted(item, cfg) ==
    /\ (item.color # "null") <=> (cfg.useRandomColor /\ cfg.colors # <<>>)
    /\ item.color # "null" => \E k \in DOMAIN cfg.colors : item.color = cfg.colors[k]
    /\ (item.cachedCanvas # NoCanvas) <=> (item.color # "null")

\* C15: every item generateLayout produces, in either mode, has a fill colour if and
\* only if useRandomColor is set and the palette is non-empty; the colour is one of
\* the palette; and the item has a cached tinted canvas if and only if it has a colour.
C15_ColorAndCache ==
    /\ \A i \in DOMAIN items : Tinted(items[i], genCfg)
    /\ pc = "idle" => \A i \in DOMAIN layoutItems : Tinted(layoutItems[i], genCfg)

\* A grid of four items is returned with both colours of the palette, each item with
\* a canvas tinted in its colour
C15_Witness ==
    /\ pc = "idle"
    /\ genCfg.mode = "grid"
    /\ Len(layoutItems) = 4
    /\ layoutItems[1].color = "#ff0000"
    /\ layoutItems[4].color = "#000000"
    /\ layoutItems[1].cachedCanvas.color = "#ff0000"
    /\ layoutItems[4].cachedCanvas # NoCanvas

\* C16: in Random mode every item has minSize <= w <= maxSize and
\* h = w / aspectRatio of its asset, for every position of the minSize and maxSize
\* sliders.
C16_SizeWithinBounds ==
    genCfg.mode = "random" =>
        \A i \in DOMAIN items :
            /\ 8 * genCfg.minSize <= items[i].w
            /\ items[i].w <= 8 * genCfg.maxSize
            /\ items[i].h * AssetInfo(items[i].assetId).arNum
                 = items[i].w * AssetInfo(items[i].assetId).arDen

\* The rectangle r, in units of 1 / S px, has the image's aspect ratio and is centred
\* on a W x H canvas
ProportionalAndCentred(r, img, S, W, H) ==
    /\ r.w * img.h = r.h * img.w
    /\ 2 * r.x + r.w = S * W
    /\ 2 * r.y + r.h = S * H

\* The mask the engine holds was built from img for the current canvas
MaskBuiltFrom(img) ==
    /\ maskData # NoMask
    /\ maskData.w = width
    /\ maskData.h = height
    /\ maskData = BuildMask(img, width, height)

\* C17 as stated: setMask draws the image with its aspect ratio, centred, and so that
\* it spans exactly 90% of the shorter canvas dimension.
C17_SpansShorterSide ==
    \A img \in FitScope.imgs :
        MaskBuiltFrom(img) =>
            LET S == MaskScale(img)
                r == DrawRect(img, width, height)
                short == Min(width, height)
            IN  /\ ProportionalAndCentred(r, img, S, width, height)
                /\ 10 * r.w = 9 * S * short \/ 10 * r.h = 9 * S * short

\* C17 amended: setMask draws the image with its aspect ratio, centred, and as large
\* as fits in 90% of the canvas width and 90% of the canvas height: it spans 90% of
\* the height when the canvas is wider in proportion than the image, and 90% of the
\* width otherwise.
C17_ContainFit ==
    \A img \in FitScope.imgs :
        MaskBuiltFrom(img) =>
            LET S == MaskScale(img)
                r == DrawRect(img, width, height)
            IN  /\ ProportionalAndCentred(r, img, S, width, height)
                /\ 10 * r.w <= 9 * S * width
                /\ 10 * r.h <= 9 * S * height
                /\ IF width * img.h > height * img.w
                   THEN 10 * r.h = 9 * S * height
                   ELSE 10 * r.w = 9 * S * width

\* A 2 : 1 image on a 3 x 2 canvas: it spans 90% of the width, the longer side
C17_Witness ==
    /\ width = 3
    /\ height = 2
    /\ MaskBuiltFrom(Image(2, 1, Dark))
    /\ 10 * DrawRect(Image(2, 1, Dark), width, height).w = 9 * MaskScale(Image(2, 1, Dark)) * 3
    /\ config.useMask

\* C18: at most one animation-frame callback is pending at any time, it is the one
\* animationRef.current names, and its closure holds the current layoutItems and
\* config, so that every frame drawn after a change shows the latest layout under the
\* latest configuration.
C18_OneLoop ==
    /\ Cardinality(loop.pending) <= 1
    /\ \A cb \in loop.pending :
          /\ cb.id = loop.ref
          /\ cb.items = layoutItems
          /\ cb.cfg = config
    /\ drawn.called => drawn = Render(layoutItems, config, drawn.time)

\* After the animation was switched on and a layout of two items was generated with
\* overlap prevention off, one callback is pending and the last frame drew both items
C18_Witness ==
    /\ Cardinality(loop.pending) = 1
    /\ config.enableAnim
    /\ ~config.preventOverlap
    /\ config.useMask
    /\ Len(layoutItems) = 2
    /\ drawn.called
    /\ drawn.anim
    /\ drawn.time = MaxTime
    /\ Len(drawn.ops) = 2

\* C19: once a change of the asset list has been processed (no call of generateLayout
\* is running and no timer is pending), the held layout is one generated from the
\* current asset list and no item of it names an asset that is no longer in the list.
C19_LayoutFollowsAssets ==
    (pc = "idle" /\ timer = <<>>) =>
        /\ genAssets = assets
        /\ \A i \in DOMAIN layoutItems : layoutItems[i].assetId \in assets

\* C20: every call of generateLayout the host makes is given the host's current
\* config, and a held layout that is not empty was generated from the config that
\* render is called with.
C20_GeneratedFromCurrentConfig ==
    /\ pc # "idle" => genCfg = config
    /\ (pc = "idle" /\ layoutItems # <<>>) => genCfg = config

\* C21: an upload batch calls setAssets at most once, and exactly when the image of
\* each of its files has loaded; before that none of its assets is in the asset list;
\* the step that puts any of them there puts all of them there, one per file; and no
\* step of an upload takes an asset out of the list.
C21_BatchAppendedOnce ==
    /\ [](\A b \in uploads :
            /\ b.appends <= 1
            /\ b.appends = 1 <=> (b.files # {} /\ b.processedCount = Cardinality(b.files))
            /\ b.appends = 0 => NewIds(b) \cap assets = {})
    /\ [][/\ \A b \in uploads' :
               (NewIds(b) \cap assets' # {} /\ NewIds(b) \cap assets = {}) =>
                   /\ NewIds(b) \subseteq assets'
                   /\ Cardinality(NewIds(b)) = Cardinality(b.files)
          /\ uploads' # uploads => assets \subseteq assets']_vars

\* Two batches, of one and of two files, were started on the empty list, their
\* callbacks interleaved, and both are appended: the list holds the three assets
C21_Witness ==
    \E b1, b2 \in uploads :
        /\ Cardinality(b1.files) = 1
        /\ Cardinality(b2.files) = 2
        /\ b1.assets = {} /\ b2.assets = {}
        /\ b1.appends = 1 /\ b2.appends = 1
        /\ assets = NewIds(b1) \cup NewIds(b2)
        /\ Cardinality(assets) = 3
        /\ Len(timer) = 2

====
